---- MODULE Spec2Model ----
(***************************************************************************)
(* Model of RepositoryAnalyzer.analyze_folder / analyze_file               *)
(* (src/helper.py): the recursive, asyncio-based walk of a file tree that  *)
(* builds the nested analysis dictionary.                                  *)
(*                                                                         *)
(* A path is a number; Root is the path handed to analyze_folder.  The     *)
(* file tree (kind, name, access, parent) is chosen in Init and never      *)
(* changes.  os.listdir of a directory enumerates its entries in           *)
(* increasing path number, so the numbering IS the listing order.          *)
(* One action is one run of a coroutine from one suspension point to the   *)
(* next (cooperative scheduling, single thread).                           *)
(***************************************************************************)
EXTENDS Naturals, Integers, Sequences, FiniteSets, TLC

\* Bound of the model: number of paths in the file tree (the root included).
MaxNodes == 4

\* Bound of the specification with fairness: number of paths that may exist
\* in its file trees.
MaxLiveNodes == 3

Paths == 1..MaxNodes
Root == 1

\* helper.py:231  the names skipped by the loop of analyze_folder
EXCLUDED == {".git", "node_modules", "__pycache__", ".venv"}

\* The names entries are drawn from: one of the excluded names and one
\* ordinary name per path (siblings have distinct names).
PlainName(i) == <<"repo", "a.py", "sub", "b.js", "c.md", "d.txt">>[i]
NameChoices(i) == {PlainName(i), "node_modules"}

VARIABLES
    kind,      \* kind[p]   : "file", "dir" or "missing" (root only): os.path.isfile / existence
    name,      \* name[p]   : the entry's name in its directory (item)
    access,    \* access[p] : result of os.access(p, os.R_OK)
    parent,    \* parent[p] : the directory whose listing holds p (0 for the root)
    st,        \* st[p]     : position of the coroutine analyze_folder(p)
    tasks,     \* tasks[p]  : the list `tasks` of analyze_folder(p), as child paths
    doneq,     \* doneq[p]  : children of p in the order their coroutines finished
    read,      \* read[p]   : outcome of open()/read() on file p
    parse,     \* parse[p]  : outcome of ast.parse on the content of file p
    goal,      \* goal[p]   : state of goal_chain.ainvoke for file p
    summary,   \* summary[p]: state of summary_chain.ainvoke for file p
    node,      \* node[p]   : the dictionary returned by analyze_folder(p)
    calls,     \* calls[p]  : number of oracle invocations made for p, per chain
    probed,    \* probed[p] : number of times the loop ran its skip checks on entry p
    code,      \* extract_code_attributes: the source text, as its declarations in order
    lang,      \* extract_code_attributes: the language label and the parser's verdict
    attrs,     \* extract_code_attributes: the three lists last returned
    analysis,  \* RepoChatbot.analysis
    qdrant,    \* RepoChatbot.qdrant: the texts indexed
    retriever, \* RepoChatbot.retriever
    rag_chain, \* RepoChatbot.rag_chain
    last       \* the last RepoChatbot call and how it ended

fsvars == <<kind, name, access, parent>>
walkvars == <<st, tasks, doneq, read, parse, goal, summary, node, calls, probed>>
xvars == <<code, lang, attrs>>
cvars == <<analysis, qdrant, retriever, rag_chain, last>>
othervars == <<xvars, cvars>>
vars == <<fsvars, walkvars, xvars, cvars>>

\* Python's None
None == [none |-> TRUE]

NoNode == [absent |-> TRUE]
NoCalls == [goal |-> 0, summary |-> 0, folder |-> 0]

----------------------------------------------------------------------------
(* The file tree *)

\* os.listdir(f): the entries of directory f, in listing order.
RECURSIVE ListFrom(_, _)
ListFrom(f, i) ==
    IF i > MaxNodes THEN <<>>
    ELSE IF parent[i] = f THEN <<i>> \o ListFrom(f, i + 1)
    ELSE ListFrom(f, i + 1)

Listdir(f) == ListFrom(f, 1)

\* The proper ancestors of p, the root included.
RECURSIVE Ancestors(_)
Ancestors(p) == IF parent[p] = 0 THEN {} ELSE {parent[p]} \cup Ancestors(parent[p])

Subtree(p) == {q \in Paths : q = p \/ p \in Ancestors(q)}

\* A path that is not in the file tree.
Missing(p) == [kind |-> "missing", name |-> PlainName(p), access |-> FALSE, parent |-> 0]

\* The entries path p may be, given the tree t of the paths before it: a file
\* or a directory, listed in an earlier directory, under a name no sibling has.
\* The probe is never made on an entry skipped by name, so one value of
\* access stands for both there.
EntriesFor(p, t) ==
    {e \in [kind : {"file", "dir"}, name : NameChoices(p), access : BOOLEAN, parent : 1..(p - 1)] :
        /\ t[e.parent].kind = "dir"
        /\ (e.name \in EXCLUDED => e.access)
        /\ \A q \in 2..(p - 1) : t[q].parent = e.parent => t[q].name # e.name}
    \cup {Missing(p)}

\* The root: a file, a directory, or a path that does not exist.
RootEntries ==
    [kind : {"file", "dir"}, name : {PlainName(Root)}, access : BOOLEAN, parent : {0}]
    \cup {Missing(Root)}

RECURSIVE Trees(_)
Trees(n) ==
    IF n = 1 THEN {<<e>> : e \in RootEntries}
    ELSE UNION {{Append(t, e) : e \in EntriesFor(n, t)} : t \in Trees(n - 1)}

\* the variables of the file tree hold the tree t
TreeIs(t) ==
    /\ kind = [p \in Paths |-> t[p].kind]
    /\ name = [p \in Paths |-> t[p].name]
    /\ access = [p \in Paths |-> t[p].access]
    /\ parent = [p \in Paths |-> t[p].parent]

\* the tree t, the paths after its last taken as not existing
PadTree(t) == [p \in Paths |-> IF p <= Len(t) THEN t[p] ELSE Missing(p)]

\* no coroutine was created yet
NothingStarted ==
    /\ st = [p \in Paths |-> "idle"]
    /\ tasks = [p \in Paths |-> <<>>]
    /\ doneq = [p \in Paths |-> <<>>]
    /\ read = [p \in Paths |-> "none"]
    /\ parse = [p \in Paths |-> "none"]
    /\ goal = [p \in Paths |-> "none"]
    /\ summary = [p \in Paths |-> "none"]
    /\ node = [p \in Paths |-> NoNode]
    /\ calls = [p \in Paths |-> NoCalls]
    /\ probed = [p \in Paths |-> 0]

\* extract_code_attributes was not called
NothingExtracted == code = <<>> /\ lang = <<"Unknown", "unread">> /\ attrs = <<<<>>, <<>>, <<>>>>

\* chatbot.py:34-38  the RepoChatbot as __init__ leaves it
ChatbotNew ==
    /\ analysis = None /\ qdrant = None /\ retriever = None /\ rag_chain = None
    /\ last = <<"__init__", "ok">>

Init ==
    /\ \E t \in Trees(MaxNodes) : TreeIs(t)
    /\ NothingStarted
    /\ NothingExtracted
    /\ ChatbotNew

InitLive ==
    /\ \E t \in Trees(IF MaxLiveNodes < MaxNodes THEN MaxLiveNodes ELSE MaxNodes) : TreeIs(PadTree(t))
    /\ NothingStarted
    /\ NothingExtracted
    /\ ChatbotNew

----------------------------------------------------------------------------
(* analyze_folder: the loop over os.listdir *)

\* the loop without its name test
EligibleProbeOnly(p) == access[p]

\* helper.py:231-235  the two skip conditions of the loop, for entry p
Eligible(p) == name[p] \notin EXCLUDED /\ access[p]

\* the loop without its skip conditions
SurvivingEntriesAll(f) == ListFrom(f, 1)

\* the loop leaving at the first skipped entry (break written for continue)
SurvivingEntriesBreak(f) ==
    LET l == Listdir(f)
        bad == {k \in 1..Len(l) : ~Eligible(l[k])}
        stop == IF bad = {} THEN Len(l) + 1 ELSE CHOOSE k \in bad : \A j \in bad : k <= j
    IN SubSeq(l, 1, stop - 1)

\* helper.py:227-236  the entries for which a coroutine is appended to `tasks`
SurvivingEntries(f) == SelectSeq(Listdir(f), Eligible)

Range(s) == {s[k] : k \in 1..Len(s)}

\* the skip conditions run in the loop and once more on the entries kept
ProbeEntriesAgain(pr, f) ==
    [p \in Paths |-> IF parent[p] # f THEN pr[p]
                     ELSE IF name[p] \notin EXCLUDED /\ access[p] THEN pr[p] + 2
                     ELSE pr[p] + 1]

\* helper.py:228-235  one pass of the loop over the listing of f: the skip
\* conditions run once on each entry
ProbeEntries(pr, f) == [p \in Paths |-> IF parent[p] = f THEN pr[p] + 1 ELSE pr[p]]

Terminal == {"done", "raised"}

\* asyncio.run tears the remaining tasks down once the root coroutine is over.
RunOver == st[Root] \in Terminal

----------------------------------------------------------------------------
(* detect_language *)

\* os.path.splitext(file_path)[1].lower() for the names of the model
ExtOf(n) ==
    CASE n = "a.py" -> ".py"
      [] n = "b.js" -> ".js"
      [] n = "c.md" -> ".md"
      [] n = "d.txt" -> ".txt"
      [] OTHER -> ""

\* the extension table (language_map.json), as LANGUAGE_MAP of
\* create_summaries.py:30-37 for the extensions of the model
LanguageMap == [e \in {".py", ".js", ".md"} |->
                   CASE e = ".py" -> "Python" [] e = ".js" -> "JavaScript" [] e = ".md" -> "Markdown"]

\* helper.py:129-131
DetectLanguage(p) ==
    IF ExtOf(name[p]) \in DOMAIN LanguageMap THEN LanguageMap[ExtOf(name[p])] ELSE "Unknown"

----------------------------------------------------------------------------
(* The dictionaries analyze_file and analyze_folder return *)

\* an error dictionary that also carries the language detected at line 193
FileErrorNodeWithLanguage(p) ==
    [file_path |-> p, language |-> <<"language", p>>, error |-> "str(e)"]

\* helper.py:199  the dictionary of a file that could not be read
FileErrorNode(p) == [file_path |-> p, error |-> "str(e)"]

\* helper.py:209-218  the dictionary of an analyzed file; the values stand for
\* what was computed from the file at p
FileNode(p) ==
    [file_path |-> p, language |-> DetectLanguage(p), functions |-> <<"functions", p>>,
     classes |-> <<"classes", p>>, dependencies |-> <<"imports", p>>,
     goal |-> <<"goal", p>>, summary |-> <<"summary", p>>, file_content |-> <<"content", p>>]

\* helper.py:243
FolderNode(f, children) == [folder_path |-> f, children |-> children]

IsFileNode(n) == "file_path" \in DOMAIN n
IsFolderNode(n) == "folder_path" \in DOMAIN n

\* the coroutine of p ends in state s with result n; the gather of its parent
\* sees it finish after those that finished before
Complete(p, s, n) ==
    /\ st' = [st EXCEPT ![p] = s]
    /\ node' = [node EXCEPT ![p] = n]
    /\ doneq' = IF p = Root THEN doneq ELSE [doneq EXCEPT ![parent[p]] = Append(@, p)]

----------------------------------------------------------------------------
(* analyze_file *)

\* helper.py:142  ast.parse returns a tree, raises SyntaxError, or raises
\* something else (ValueError on a null byte, RecursionError or MemoryError on
\* deeply nested source); it runs for Python files only
ParseOutcomes(p) ==
    IF DetectLanguage(p) = "Python" THEN {"ok", "SyntaxError", "OtherError"} ELSE {"none"}

\* helper.py:141-157  the try around ast.parse catches SyntaxError only
ParseErrorPropagates(po) == po = "OtherError"

\* helper.py:195-197  open() and read() either succeed or raise; they raise
\* whenever the path is not readable, and may raise for a readable path too
\* (the file vanished, an I/O error)
ReadOutcomes(p) == IF access[p] THEN BOOLEAN ELSE {FALSE}

\* a read without the try/except around it: the exception leaves analyze_file
OnReadErrorRaises(p) == [st |-> "raised", node |-> NoNode]

\* helper.py:198-199  what a failed read turns into
OnReadError(p) == [st |-> "done", node |-> FileErrorNode(p)]

\* both tasks built from goal_chain (summary_chain never invoked)
IssueGoalCallTwice(c, p) == [c EXCEPT ![p].goal = @ + 2]

\* helper.py:205-206  one ainvoke on each chain
IssueFileCalls(c, p) == [c EXCEPT ![p].goal = @ + 1, ![p].summary = @ + 1]

\* helper.py:193-207  analyze_file up to its await
AnalyzeFileStart(p) ==
    /\ \E ok \in ReadOutcomes(p), po \in ParseOutcomes(p) :
          IF ~ok
          THEN /\ read' = [read EXCEPT ![p] = "raised"]
               /\ Complete(p, OnReadError(p).st, OnReadError(p).node)
               /\ UNCHANGED <<parse, goal, summary, calls>>
          ELSE IF ParseErrorPropagates(po)
          THEN \* helper.py:201  the exception of extract_code_attributes leaves analyze_file
               /\ read' = [read EXCEPT ![p] = "ok"]
               /\ parse' = [parse EXCEPT ![p] = po]
               /\ Complete(p, "raised", NoNode)
               /\ UNCHANGED <<goal, summary, calls>>
          ELSE /\ read' = [read EXCEPT ![p] = "ok"]
               /\ parse' = [parse EXCEPT ![p] = po]
               /\ st' = [st EXCEPT ![p] = "summarizing"]
               /\ goal' = [goal EXCEPT ![p] = "pending"]
               /\ summary' = [summary EXCEPT ![p] = "pending"]
               /\ calls' = IssueFileCalls(calls, p)
               /\ UNCHANGED <<node, doneq>>
    /\ UNCHANGED <<tasks, probed>>

\* goal_chain.ainvoke returns or raises
GoalReturns(p) ==
    /\ ~RunOver
    /\ goal[p] = "pending"
    /\ \E r \in {"ok", "raised"} : goal' = [goal EXCEPT ![p] = r]
    /\ UNCHANGED <<othervars, fsvars, st, tasks, doneq, read, parse, summary, node, calls, probed>>

\* summary_chain.ainvoke returns or raises
SummaryReturns(p) ==
    /\ ~RunOver
    /\ summary[p] = "pending"
    /\ \E r \in {"ok", "raised"} : summary' = [summary EXCEPT ![p] = r]
    /\ UNCHANGED <<othervars, fsvars, st, tasks, doneq, read, parse, goal, node, calls, probed>>

\* helper.py:207  asyncio.gather(goal_task, summary_task) raises as soon as one
\* of the two has raised
FileFails(p) ==
    /\ ~RunOver
    /\ st[p] = "summarizing"
    /\ goal[p] = "raised" \/ summary[p] = "raised"
    /\ Complete(p, "raised", NoNode)
    /\ UNCHANGED <<othervars, fsvars, tasks, read, parse, goal, summary, calls, probed>>

\* helper.py:207-218  both results are in: the dictionary is returned
FileReturns(p) ==
    /\ ~RunOver
    /\ st[p] = "summarizing"
    /\ goal[p] = "ok" /\ summary[p] = "ok"
    /\ Complete(p, "done", FileNode(p))
    /\ UNCHANGED <<othervars, fsvars, tasks, read, parse, goal, summary, calls, probed>>

----------------------------------------------------------------------------
(* analyze_folder *)

\* position of x in the list s, counted from 0 as enumerate() does
IndexIn(s, x) == (CHOOSE k \in 1..Len(s) : s[k] = x) - 1

\* tqdm_asyncio.gather collects <<index, result>> pairs as the wrapped
\* coroutines finish: the pairs of folder f, in completion order
CompletionPairs(f) ==
    [k \in 1..Len(doneq[f]) |-> <<IndexIn(tasks[f], doneq[f][k]), node[doneq[f][k]]>>]

\* sorted(res): the pairs by increasing index (selection of the least, repeated)
RECURSIVE SortedPairs(_)
SortedPairs(res) ==
    IF Len(res) = 0 THEN <<>>
    ELSE LET m == CHOOSE k \in 1..Len(res) : \A j \in 1..Len(res) : res[k][1] <= res[j][1]
             rest == [j \in 1..(Len(res) - 1) |-> IF j < m THEN res[j] ELSE res[j + 1]]
         IN <<res[m]>> \o SortedPairs(rest)

\* a gather that hands the results back as they came in
GatherCompletionOrder(f) == [k \in 1..Len(doneq[f]) |-> node[doneq[f][k]]]

\* helper.py:239  what the gather returns: the results of the sorted pairs
Gather(f) ==
    LET sorted == SortedPairs(CompletionPairs(f))
    IN [k \in 1..Len(sorted) |-> sorted[k][2]]

\* a wait that counts one coroutine more than were handed to it
JoinReadyOneMore(f) == Len(doneq[f]) = Len(tasks[f]) + 1

\* a wait that returns with the first coroutine that is over
JoinReadyFirst(f) == Len(doneq[f]) >= 1

\* helper.py:239  the gather returns once every coroutine handed to it is over
JoinReady(f) == Len(doneq[f]) = Len(tasks[f])

\* helper.py:227-243  analyze_folder of a directory up to its await; without
\* any task it returns at once
AnalyzeFolderStart(f) ==
    IF kind[f] = "missing" \/ ~access[f]
    THEN \* helper.py:228  os.listdir raises: no such directory, or permission denied
         /\ Complete(f, "raised", NoNode)
         /\ UNCHANGED <<tasks, read, parse, goal, summary, calls, probed>>
    ELSE /\ probed' = ProbeEntries(probed, f)
         /\ tasks' = [tasks EXCEPT ![f] = SurvivingEntries(f)]
         /\ IF SurvivingEntries(f) = <<>>
            THEN Complete(f, "done", FolderNode(f, <<>>))
            ELSE /\ st' = [p \in Paths |->
                             IF p = f THEN "awaiting"
                             ELSE IF p \in Range(SurvivingEntries(f)) THEN "scheduled"
                             ELSE st[p]]
                 /\ UNCHANGED <<node, doneq>>
         /\ UNCHANGED <<read, parse, goal, summary, calls>>

\* helper.py:223-225  dispatch on os.path.isfile
AnalyzeFolder(p) ==
    /\ IF kind[p] = "file" THEN AnalyzeFileStart(p) ELSE AnalyzeFolderStart(p)
    /\ UNCHANGED <<othervars, fsvars>>

\* helper.py:253  run() calls analyze_folder on the root
Run ==
    /\ st[Root] = "idle"
    /\ AnalyzeFolder(Root)

\* the event loop starts the coroutine the gather of its parent scheduled
TaskStarts(p) ==
    /\ ~RunOver
    /\ st[p] = "scheduled"
    /\ AnalyzeFolder(p)

\* helper.py:239  one of the gathered coroutines raised: the await raises
FolderFails(f) ==
    /\ ~RunOver
    /\ st[f] = "awaiting"
    /\ \E c \in Range(doneq[f]) : st[c] = "raised"
    /\ Complete(f, "raised", NoNode)
    /\ UNCHANGED <<othervars, fsvars, tasks, read, parse, goal, summary, calls, probed>>

\* helper.py:239-243  all gathered coroutines returned: the folder's dictionary
FolderReturns(f) ==
    /\ ~RunOver
    /\ st[f] = "awaiting"
    /\ JoinReady(f)
    /\ \A c \in Range(doneq[f]) : st[c] = "done"
    /\ Complete(f, "done", FolderNode(f, Gather(f)))
    /\ UNCHANGED <<othervars, fsvars, tasks, read, parse, goal, summary, calls, probed>>

----------------------------------------------------------------------------
Next ==
    \/ Run
    \/ \E p \in Paths : TaskStarts(p)
    \/ \E p \in Paths : GoalReturns(p)
    \/ \E p \in Paths : SummaryReturns(p)
    \/ \E p \in Paths : FileFails(p)
    \/ \E p \in Paths : FileReturns(p)
    \/ \E p \in Paths : FolderFails(p)
    \/ \E p \in Paths : FolderReturns(p)

Spec == Init /\ [][Next]_vars

\* a step of the walk after it was started
WalkStep ==
    \E p \in Paths :
        \/ TaskStarts(p) \/ GoalReturns(p) \/ SummaryReturns(p)
        \/ FileFails(p) \/ FileReturns(p) \/ FolderFails(p) \/ FolderReturns(p)

\* The event loop runs a coroutine that is ready, and every file read and
\* every oracle call eventually returns or raises: the walk does not stop
\* while one of its steps can be taken.
Fairness == WF_vars(WalkStep)

FairSpec == InitLive /\ [][Next]_vars /\ Fairness

TypeOK ==
    /\ st \in [Paths -> {"idle", "scheduled", "summarizing", "awaiting", "done", "raised"}]
    /\ goal \in [Paths -> {"none", "pending", "ok", "raised"}]
    /\ summary \in [Paths -> {"none", "pending", "ok", "raised"}]
    /\ read \in [Paths -> {"none", "ok", "raised"}]
    /\ parse \in [Paths -> {"none", "ok", "SyntaxError", "OtherError"}]

----------------------------------------------------------------------------
(* Reading the returned tree *)

PathOf(n) == IF IsFileNode(n) THEN n.file_path ELSE n.folder_path

\* the file dictionaries of the tree n, depth first along the children lists
RECURSIVE FileNodesOf(_)
RECURSIVE FileNodesOfAll(_)
FileNodesOf(n) ==
    IF IsFileNode(n) THEN <<n>>
    ELSE IF IsFolderNode(n) THEN FileNodesOfAll(n.children)
    ELSE <<>>
FileNodesOfAll(ns) ==
    IF Len(ns) = 0 THEN <<>> ELSE FileNodesOf(Head(ns)) \o FileNodesOfAll(Tail(ns))

\* how many file dictionaries of the tree n are for path p
Occurrences(n, p) ==
    LET fs == FileNodesOf(n) IN Cardinality({k \in 1..Len(fs) : fs[k].file_path = p})

\* every path a dictionary of the tree n is for, folders included
RECURSIVE PathsIn(_)
PathsIn(n) ==
    IF IsFileNode(n) THEN {n.file_path}
    ELSE IF IsFolderNode(n)
         THEN {n.folder_path} \cup UNION {PathsIn(n.children[k]) : k \in 1..Len(n.children)}
    ELSE {}

ChildPaths(n) == [k \in 1..Len(n.children) |-> PathOf(n.children[k])]

\* the directories between the root and p, the root left out
DirsAbove(p) == Ancestors(p) \ {Root}

----------------------------------------------------------------------------
(* C1 *)

\* p and every directory above it pass both skip conditions of the loop
Survives(p) == \A q \in DirsAbove(p) \cup {p} : Eligible(q)

\* p passes the probe and sits in no excluded or unreadable directory; its own
\* name is not looked at
OutsideExcludedDirs(p) == access[p] /\ \A q \in DirsAbove(p) : Eligible(q)

----------------------------------------------------------------------------
(* C2 *)

\* C2: the children of every folder node are in the order the surviving
\* entries were enumerated, whatever the order the children finished in.
C2_ChildrenInListingOrder ==
    \A f \in Paths :
        (kind[f] = "dir" /\ st[f] = "done") => ChildPaths(node[f]) = SurvivingEntries(f)

\* a folder node whose children finished in another order than they were listed
C2_Witness ==
    \E f \in Paths :
        /\ kind[f] = "dir" /\ st[f] = "done"
        /\ Len(node[f].children) >= 2
        /\ doneq[f] # SurvivingEntries(f)

----------------------------------------------------------------------------
(* C3 *)

\* C3: when a folder node exists, every coroutine the folder gathered is over
\* (it returned a node, error-carrying or not), none is still reading or
\* waiting on an oracle call, and the node holds one child per coroutine.
C3_JoinBarrier ==
    \A f \in Paths :
        (kind[f] = "dir" /\ st[f] = "done") =>
            /\ \A c \in Range(tasks[f]) :
                  st[c] \in Terminal /\ goal[c] # "pending" /\ summary[c] # "pending"
            /\ Len(node[f].children) = Len(tasks[f])

\* a folder node over two gathered children, one of them itself a folder
C3_Witness ==
    \E f \in Paths :
        /\ kind[f] = "dir" /\ st[f] = "done"
        /\ Len(tasks[f]) >= 2
        /\ \E c \in Range(tasks[f]) : kind[c] = "dir" /\ Len(tasks[c]) >= 1

----------------------------------------------------------------------------
(* C4 *)

OracleRaisedIn(ps) == \E q \in ps : goal[q] = "raised" \/ summary[q] = "raised"

\* os.listdir of the root raises
RootUnlistable == kind[Root] = "missing" \/ (kind[Root] = "dir" /\ ~access[Root])

\* C4: a file whose read raised is returned as a node carrying the error, not
\* as an exception; a folder node holds, at its place in the listing, the
\* node of each gathered child, the error-carrying ones included; and a
\* folder fails to return only when an oracle call or the parser below it
\* raised (or the root could not be listed), never because a read raised.
C4_ReadErrorIsANode ==
    /\ \A p \in Paths :
          read[p] = "raised" =>
              /\ st[p] = "done"
              /\ IsFileNode(node[p]) /\ node[p].file_path = p /\ "error" \in DOMAIN node[p]
    /\ \A f \in Paths :
          (kind[f] = "dir" /\ st[f] = "done") =>
              \A c \in Range(tasks[f]) :
                  /\ node[c] # NoNode
                  /\ IndexIn(tasks[f], c) + 1 <= Len(node[f].children)
                  /\ node[f].children[IndexIn(tasks[f], c) + 1] = node[c]
    /\ \A f \in Paths :
          (kind[f] # "file" /\ st[f] = "raised") =>
              \/ f = Root /\ RootUnlistable
              \/ OracleRaisedIn(Subtree(f))
              \/ \E q \in Subtree(f) : parse[q] = "OtherError"

\* a returned root folder with an unreadable file and an analyzed file among
\* its children
C4_Witness ==
    /\ kind[Root] = "dir" /\ st[Root] = "done"
    /\ \E c, d \in Range(tasks[Root]) :
          /\ read[c] = "raised" /\ read[d] = "ok"
          /\ \E k \in 1..Len(node[Root].children) :
                node[Root].children[k] = FileErrorNode(c)

----------------------------------------------------------------------------
(* C5 *)

\* C5: when the goal call or the summary call of a file raised, no folder
\* above the file raises: each still returns its node, the root included.
C5_OracleFailureContained ==
    \A p \in Paths :
        (goal[p] = "raised" \/ summary[p] = "raised") =>
            \A f \in Ancestors(p) : st[f] # "raised"

----------------------------------------------------------------------------
(* C6 *)

\* an entry below the root with an excluded name or failing the probe
Skipped(p) == p # Root /\ kind[p] # "missing" /\ (name[p] \in EXCLUDED \/ ~access[p])

\* C6: an entry below the root whose name is in the exclusion set, or that
\* fails the probe, and everything beneath it, is never scheduled, is no
\* node of any dictionary, and has no oracle call made for it.
C6_SkippedContributeNothing ==
    \A p \in Paths :
        Skipped(p) =>
            \A q \in Subtree(p) :
                /\ st[q] = "idle" /\ node[q] = NoNode
                /\ read[q] = "none" /\ goal[q] = "none" /\ summary[q] = "none"
                /\ calls[q] = NoCalls
                /\ \A r \in Paths : q \notin Range(tasks[r]) /\ q \notin PathsIn(node[r])

\* a returned root whose listing held an excluded directory with a readable
\* file inside, and an entry that failed the probe
C6_Witness ==
    /\ kind[Root] = "dir" /\ st[Root] = "done"
    /\ \E p, q \in Paths :
          /\ kind[p] = "dir" /\ name[p] \in EXCLUDED /\ parent[p] = Root
          /\ kind[q] = "file" /\ parent[q] = p /\ name[q] \notin EXCLUDED /\ access[q]
    /\ \E p \in Paths : parent[p] = Root /\ ~access[p]

----------------------------------------------------------------------------
(* C7 *)

\* C7: a folder node carries the summary of a folder-level oracle call, made
\* once, after the join.
C7_FolderSummarized ==
    \A f \in Paths :
        (kind[f] = "dir" /\ st[f] = "done") =>
            /\ "summary" \in DOMAIN node[f]
            /\ calls[f].folder = 1

----------------------------------------------------------------------------
(* C8 *)

\* C8: for every file, the goal chain and the summary chain are each invoked
\* at most once in a run, and only for a file that was read.
C8_OracleOncePerFile ==
    \A p \in Paths :
        /\ calls[p].goal <= 1 /\ calls[p].summary <= 1
        /\ calls[p].goal = calls[p].summary
        /\ (calls[p].goal = 1 => kind[p] = "file" /\ read[p] = "ok")

\* a returned tree with two analyzed files at different depths, each with one
\* invocation of each chain
C8_Witness ==
    /\ st[Root] = "done"
    /\ \E p, q \in Paths :
          /\ p # q /\ parent[p] = Root /\ parent[q] # Root
          /\ calls[p] = [goal |-> 1, summary |-> 1, folder |-> 0]
          /\ calls[q] = [goal |-> 1, summary |-> 1, folder |-> 0]

----------------------------------------------------------------------------
(* C9 *)

AnalysisFields == {"language", "functions", "classes", "dependencies", "goal", "summary"}

ErrorExclusive(n) ==
    /\ "error" \in DOMAIN n => DOMAIN n = {"file_path", "error"}
    /\ DOMAIN n \cap AnalysisFields # {} => "error" \notin DOMAIN n

\* C9: a file node with error set carries only its path and the error, and a
\* file node with any analysis field has no error; for the node of every
\* file and for every file node inside every returned tree.
C9_ErrorExclusive ==
    \A p \in Paths :
        LET fs == FileNodesOf(node[p])
        IN \A k \in 1..Len(fs) : ErrorExclusive(fs[k])

\* a returned tree holding an error-carrying file node and an analyzed one
C9_Witness ==
    /\ kind[Root] = "dir" /\ st[Root] = "done"
    /\ LET fs == FileNodesOf(node[Root])
       IN \E j, k \in 1..Len(fs) :
             /\ "error" \in DOMAIN fs[j]
             /\ AnalysisFields \subseteq DOMAIN fs[k]

----------------------------------------------------------------------------
(* C10 *)

\* C10: when the root does not exist or is not readable, the analysis ends
\* with a raised error and returns no node, be the root a directory or a file.
C10_UnreadableRootRaises ==
    (st[Root] \in Terminal /\ (kind[Root] = "missing" \/ ~access[Root])) =>
        st[Root] = "raised" /\ node[Root] = NoNode

----------------------------------------------------------------------------
(* C12 *)

\* C12: once analyze_folder has been called on the root, it eventually
\* returns the tree or raises.
C12_WalkTerminates == (st[Root] # "idle") ~> (st[Root] \in Terminal)

\* a walk that is over after a folder below the root gathered its child
C12_Witness ==
    /\ st[Root] \in Terminal
    /\ \E f \in Paths \ {Root} : kind[f] = "dir" /\ st[f] = "done" /\ Len(doneq[f]) = 1

----------------------------------------------------------------------------
(* C14 *)

\* the loop of directory f has run
Listed(f) == kind[f] = "dir" /\ access[f] /\ st[f] \notin {"idle", "scheduled"}

\* every entry of f has an excluded name or fails the probe (f may be empty)
NoSurvivors(f) == \A c \in Paths : parent[c] = f => (name[c] \in EXCLUDED \/ ~access[c])

\* C14: a folder that was listed and has no surviving entry has returned the
\* folder node with an empty children sequence, has not raised, and none of
\* its entries was scheduled.
C14_EmptyFolderNode ==
    \A f \in Paths :
        (Listed(f) /\ NoSurvivors(f)) =>
            /\ st[f] = "done"
            /\ node[f] = [folder_path |-> f, children |-> <<>>]
            /\ tasks[f] = <<>>
            /\ \A c \in Paths : parent[c] = f => st[c] = "idle" /\ node[c] = NoNode

\* a returned tree holding the empty node of a folder whose only entries were
\* skipped
C14_Witness ==
    /\ kind[Root] = "dir" /\ st[Root] = "done"
    /\ \E f \in Paths \ {Root} :
          /\ kind[f] = "dir" /\ \E c \in Paths : parent[c] = f
          /\ \E k \in 1..Len(node[Root].children) :
                node[Root].children[k] = [folder_path |-> f, children |-> <<>>]

----------------------------------------------------------------------------
(* C16 *)

\* C16: every entry of a listed directory had the skip conditions run on it
\* exactly once, no entry more than once, and an entry for which a coroutine
\* exists had them run once and passed both.
C16_FilterOncePerEntry ==
    \A p \in Paths \ {Root} :
        /\ probed[p] <= 1
        /\ (kind[p] # "missing" /\ Listed(parent[p])) => probed[p] = 1
        /\ st[p] # "idle" => (probed[p] = 1 /\ name[p] \notin EXCLUDED /\ access[p])

\* an entry scheduled and not yet started beside a skipped entry, both checked once
C16_Witness ==
    \E p, q \in Paths \ {Root} :
        /\ parent[p] = parent[q]
        /\ st[p] = "scheduled" /\ probed[p] = 1
        /\ st[q] = "idle" /\ probed[q] = 1 /\ kind[q] # "missing"

----------------------------------------------------------------------------
(* C15 *)

\* C15: when ast.parse failed on a file's content, for whatever reason, the
\* extractor returned a result: the file's coroutine raises only if an oracle
\* call raised, and no folder above it raises because of the parser.
C15_ParseFailureFallsBack ==
    \A p \in Paths :
        parse[p] \in {"SyntaxError", "OtherError"} =>
            /\ st[p] = "raised" => OracleRaisedIn({p})
            /\ \A f \in Ancestors(p) : st[f] = "raised" => OracleRaisedIn(Subtree(f))

----------------------------------------------------------------------------
(* extract_code_attributes *)

\* Bounds of the extractor's inputs: declarations per source text, and
\* identifiers they may declare.
MaxDecls == 3
MaxIdent == 2

\* The identifiers, numbered in the order Python sorts them; identifier 1
\* starts with an upper-case letter, the others with a lower-case one.
Idents == 1..MaxIdent
Capitalized(i) == i = 1

\* The declarations a source text is made of, each on a line of its own:
\*   "def"       def N(): pass          "class"     class N: pass
\*   "import"    import N               "function"  function N(){}
\*   "const"     const N = 1            "import_q"  import 'N'
\*   "include"   include N              "class_eq"  <div class="N">
\*   "link"      <link href="N">
DeclKinds == {"def", "class", "import", "function", "const", "import_q",
              "include", "class_eq", "link"}
Decls == [kw : DeclKinds, id : Idents]

RECURSIVE SeqsUpTo(_, _)
SeqsUpTo(S, n) ==
    IF n = 0 THEN {<<>>}
    ELSE LET shorter == SeqsUpTo(S, n - 1)
         IN shorter \cup {Append(q, x) : q \in {r \in shorter : Len(r) = n - 1}, x \in S}

Codes == SeqsUpTo(Decls, MaxDecls)

Languages == {"Python", "JavaScript", "HTML", "Unknown"}

\* re.findall / the loop over ast.walk: the identifiers of the declarations of
\* c that are among K, in the order of the text
Found(c, K) ==
    LET kept == SelectSeq(c, LAMBDA d : d \in K)
    IN [k \in 1..Len(kept) |-> kept[k].id]

\* helper.py:142  ast.parse accepts a text of Python declarations only
ParseVerdict(c) ==
    IF \A k \in 1..Len(c) : c[k].kw \in {"def", "class", "import"} THEN "ok" ELSE "SyntaxError"

\* helper.py:143-150  the names collected from the syntax tree
ExtractPythonAst(c) ==
    <<Found(c, {d \in Decls : d.kw = "def"}),
      Found(c, {d \in Decls : d.kw = "class"}),
      Found(c, {d \in Decls : d.kw = "import"})>>

\* helper.py:151-157  the three patterns of the except branch
ExtractPythonFallback(c) ==
    <<Found(c, {d \in Decls : d.kw = "def"}),
      Found(c, {d \in Decls : d.kw = "class"}),
      Found(c, {d \in Decls : d.kw = "import"})>>

\* helper.py:160-164
ExtractJsLike(c) ==
    <<Found(c, {d \in Decls : d.kw \in {"function", "const"}}),
      Found(c, {d \in Decls : d.kw = "class" /\ Capitalized(d.id)}),
      Found(c, {d \in Decls : d.kw = "import_q"})>>

\* helper.py:166-170
ExtractHtmlLike(c) ==
    <<<<>>,
      Found(c, {d \in Decls : d.kw = "class_eq"}),
      Found(c, {d \in Decls : d.kw = "link"})>>

\* helper.py:172-176
ExtractGeneric(c) ==
    <<Found(c, {d \in Decls : d.kw \in {"def", "function"}}),
      Found(c, {d \in Decls : d.kw = "class" /\ Capitalized(d.id)}),
      Found(c, {d \in Decls : d.kw \in {"import", "include"}})>>

\* helper.py:178-185  the branch taken for a language and a parser verdict
RawAttributes(c, language, verdict) ==
    IF language = "Python"
    THEN (IF verdict = "ok" THEN ExtractPythonAst(c) ELSE ExtractPythonFallback(c))
    ELSE IF language \in {"JavaScript", "TypeScript", "React (JavaScript)", "React (TypeScript)"}
    THEN ExtractJsLike(c)
    ELSE IF language \in {"HTML", "CSS"}
    THEN ExtractHtmlLike(c)
    ELSE ExtractGeneric(c)

\* the list without its repetitions, in the order of first occurrence
RECURSIVE FirstOccurrences(_)
FirstOccurrences(l) ==
    IF Len(l) = 0 THEN <<>>
    ELSE LET front == FirstOccurrences(SubSeq(l, 1, Len(l) - 1))
         IN IF l[Len(l)] \in Range(front) THEN front ELSE Append(front, l[Len(l)])

\* sorted(S) for a set of identifiers: the least first, then the rest
RECURSIVE SortedList(_)
SortedList(S) ==
    IF S = {} THEN <<>>
    ELSE LET m == CHOOSE x \in S : \A y \in S : x <= y
         IN <<m>> \o SortedList(S \ {m})

\* set(l) listed without sorting
SortedSetUnsorted(l) == FirstOccurrences(l)

\* helper.py:187  sorted(set(l))
SortedSet(l) == SortedList(Range(l))

\* helper.py:136-187
ExtractCodeAttributes(c, language, verdict) ==
    LET raw == RawAttributes(c, language, verdict)
    IN <<SortedSet(raw[1]), SortedSet(raw[2]), SortedSet(raw[3])>>

\* the verdicts ast.parse may give on text c: what its syntax decides, or an
\* exception that is no SyntaxError; no parser runs for the other languages
VerdictsFor(c, language) ==
    IF language = "Python" THEN {ParseVerdict(c), "OtherError"} ELSE {"none"}

\* extract_code_attributes(code, language) is called on the text
Extract ==
    /\ \E v \in VerdictsFor(code, lang[1]) :
          /\ lang' = <<lang[1], v>>
          /\ attrs' = IF ParseErrorPropagates(v) THEN attrs
                      ELSE ExtractCodeAttributes(code, lang[1], v)
    /\ UNCHANGED <<code, fsvars, walkvars, cvars>>

\* two neighbouring declarations of the text change places, and the
\* extractor is called on the new text
ReorderAndExtract ==
    /\ lang[2] \notin {"unread", "OtherError"}
    /\ \E k \in 1..(Len(code) - 1) :
          /\ code[k] # code[k + 1]
          /\ code' = [code EXCEPT ![k] = code[k + 1], ![k + 1] = code[k]]
          /\ lang' = lang
          /\ attrs' = ExtractCodeAttributes(code', lang[1], lang[2])
    /\ UNCHANGED <<fsvars, walkvars, cvars>>

InitExtract ==
    /\ TreeIs(PadTree(<<Missing(Root)>>))
    /\ NothingStarted
    /\ ChatbotNew
    /\ code \in Codes
    /\ \E l \in Languages : lang = <<l, "unread">>
    /\ attrs = <<<<>>, <<>>, <<>>>>

NextExtract == Extract \/ ReorderAndExtract

SpecExtract == InitExtract /\ [][NextExtract]_vars

----------------------------------------------------------------------------
(* C13 *)

\* strictly increasing: sorted and without repetition
StrictlySorted(l) == \A j, k \in 1..Len(l) : j < k => l[j] < l[k]

\* C13: every result of the extractor is three lists that are sorted and free
\* of duplicates, whichever branch ran, and extracting again after the
\* declarations changed places gives the same three lists.
C13_SortedAndOrderIndependent ==
    [][/\ \A k \in 1..3 : StrictlySorted(attrs'[k])
       /\ (code' # code => attrs' = attrs)]_vars

\* the generic patterns have returned two functions from a text that declares
\* one of them twice and the larger one first
C13_Witness ==
    /\ lang = <<"Unknown", "none">>
    /\ Len(code) = 3
    /\ code[1] = [kw |-> "def", id |-> 2]
    /\ code[2] = [kw |-> "function", id |-> 1]
    /\ code[3] = [kw |-> "def", id |-> 2]
    /\ attrs[1] = <<1, 2>>

----------------------------------------------------------------------------
(* RepoChatbot (src/chatbot.py) *)

\* Bound of the specification of the chatbot: number of paths that may exist
\* in the file tree of the cloned repository.
MaxChatNodes == 3

\* node.get(key, ''): the field of a dictionary, or the empty string
Get(n, key) == IF key \in DOMAIN n THEN n[key] ELSE ""

\* chatbot.py:69  the text of one document
Text(n) == <<n.file_path, Get(n, "goal"), Get(n, "summary")>>

\* a flattening that also gives a folder a document of its own
RECURSIVE FlattenWithFolders(_)
FlattenWithFolders(n) ==
    IF "file_path" \in DOMAIN n THEN <<Text(n)>>
    ELSE IF "children" \in DOMAIN n
    THEN LET RECURSIVE Over(_)
             Over(cs) == IF Len(cs) = 0 THEN <<>>
                         ELSE FlattenWithFolders(Head(cs)) \o Over(Tail(cs))
         IN <<<<n.folder_path, "", "">>>> \o Over(n.children)
    ELSE <<>>

\* chatbot.py:66-74
RECURSIVE FlattenAnalysis(_)
FlattenAnalysis(n) ==
    IF "file_path" \in DOMAIN n THEN <<Text(n)>>
    ELSE IF "children" \in DOMAIN n
    THEN LET RECURSIVE Over(_)
             Over(cs) == IF Len(cs) = 0 THEN <<>>
                         ELSE FlattenAnalysis(Head(cs)) \o Over(Tail(cs))
         IN Over(n.children)
    ELSE <<>>

\* the chatbot did op with outcome o; the walk and the extractor are untouched
Did(op, o) ==
    /\ last' = <<op, o>>
    /\ UNCHANGED <<fsvars, walkvars, xvars>>

\* chatbot.py:56-57  Repo.clone_from fails: the call raises before the walk
CloneFails ==
    /\ st[Root] = "idle"
    /\ Did("analyze_repository", "raised")
    /\ UNCHANGED <<analysis, qdrant, retriever, rag_chain>>

\* chatbot.py:59-61  the awaited analyze_folder(repo_dir) is over: its result
\* is stored, or its exception leaves the call before the assignment.  (The
\* walk itself is the actions of Next, started by Run.)
AnalyzeRepository ==
    /\ st[Root] \in Terminal
    /\ IF st[Root] = "done"
       THEN analysis' = node[Root] /\ Did("analyze_repository", "ok")
       ELSE analysis' = analysis /\ Did("analyze_repository", "raised")
    /\ UNCHANGED <<qdrant, retriever, rag_chain>>

\* what the libraries behind a stage may do: work, or raise an error of theirs
LibraryOutcomes == {"ok", "raised"}

\* chatbot.py:79-95
BuildVectorStore ==
    IF analysis = None
    THEN /\ Did("build_vector_store", "ValueError")
         /\ UNCHANGED <<analysis, qdrant, retriever, rag_chain>>
    ELSE \E store \in LibraryOutcomes, retr \in LibraryOutcomes :
            /\ qdrant' = IF store = "ok" THEN [texts |-> FlattenAnalysis(analysis)] ELSE qdrant
            /\ retriever' = IF store = "ok" /\ retr = "ok"
                            THEN [store |-> qdrant'] ELSE retriever
            /\ Did("build_vector_store",
                   IF store = "ok" /\ retr = "ok" THEN "ok" ELSE "raised")
            /\ UNCHANGED <<analysis, rag_chain>>

\* chatbot.py:100-126
BuildRagChain ==
    IF retriever = None
    THEN /\ Did("build_rag_chain", "ValueError")
         /\ UNCHANGED <<analysis, qdrant, retriever, rag_chain>>
    ELSE \E llm \in LibraryOutcomes :
            /\ rag_chain' = IF llm = "ok" THEN [retriever |-> retriever] ELSE rag_chain
            /\ Did("build_rag_chain", llm)
            /\ UNCHANGED <<analysis, qdrant, retriever>>

\* a chat that answers from whatever is there, built chain or not
ChatUnguarded ==
    /\ \E o \in {"answered", "raised"} : Did("chat", o)
    /\ UNCHANGED <<analysis, qdrant, retriever, rag_chain>>

\* chatbot.py:131-136
Chat ==
    /\ IF rag_chain = None
       THEN Did("chat", "ValueError")
       ELSE \E o \in {"answered", "raised"} : Did("chat", o)
    /\ UNCHANGED <<analysis, qdrant, retriever, rag_chain>>

\* chatbot.py:141-148  the stages one after the other, up to the first that
\* raises; the walk awaited at line 144 is over
BuildAndPrepare ==
    /\ st[Root] \in Terminal
    /\ \E store \in LibraryOutcomes, retr \in LibraryOutcomes, llm \in LibraryOutcomes :
          LET analyzed == st[Root] = "done"
              stored == analyzed /\ store = "ok"
              retrieving == stored /\ retr = "ok"
              chained == retrieving /\ llm = "ok"
          IN /\ analysis' = IF analyzed THEN node[Root] ELSE analysis
             /\ qdrant' = IF stored THEN [texts |-> FlattenAnalysis(analysis')] ELSE qdrant
             /\ retriever' = IF retrieving THEN [store |-> qdrant'] ELSE retriever
             /\ rag_chain' = IF chained THEN [retriever |-> retriever'] ELSE rag_chain
             /\ Did("build_and_prepare", IF chained THEN "ok" ELSE "raised")

InitChat ==
    /\ \E t \in Trees(IF MaxChatNodes < MaxNodes THEN MaxChatNodes ELSE MaxNodes) :
          TreeIs(PadTree(t))
    /\ NothingStarted
    /\ NothingExtracted
    /\ ChatbotNew

NextChat ==
    \/ Next
    \/ CloneFails
    \/ AnalyzeRepository
    \/ BuildVectorStore
    \/ BuildRagChain
    \/ Chat
    \/ BuildAndPrepare

SpecChat == InitChat /\ [][NextChat]_vars

----------------------------------------------------------------------------
(* C11 *)

\* the paths of the folder dictionaries of the tree n
RECURSIVE FolderPathsIn(_)
FolderPathsIn(n) ==
    IF IsFolderNode(n)
    THEN {n.folder_path} \cup UNION {FolderPathsIn(n.children[k]) : k \in 1..Len(n.children)}
    ELSE {}

\* C11: the documents indexed from an analysis tree are one per file
\* dictionary of the tree, in the depth-first order of the children lists, and
\* none is for a folder: there are as many documents as file dictionaries.
C11_OneDocumentPerFile ==
    qdrant # None =>
        LET files == FileNodesOf(analysis)
            texts == qdrant.texts
        IN /\ Len(texts) = Len(files)
           /\ \A k \in 1..Len(texts) : texts[k][1] = files[k].file_path
           /\ \A k \in 1..Len(texts) : texts[k][1] \notin FolderPathsIn(analysis)

\* a tree of a file in a folder inside the root folder was indexed: one
\* document, two folder dictionaries
C11_Witness ==
    /\ qdrant # None
    /\ Len(qdrant.texts) = 1
    /\ Cardinality(FolderPathsIn(analysis)) = 2

----------------------------------------------------------------------------
(* C17 *)

\* the chatbot made a call of op in this step
Called(op) == last' # last /\ last'[1] = op

\* C17: build_vector_store without an analysis, build_rag_chain without a
\* retriever and chat without a chain raise ValueError; a call that raised
\* ValueError changed none of analysis, retriever and rag_chain; and a chat is
\* answered only when the chain, the retriever under it and the analysis under
\* that were each set by a call that succeeded, at no time a later stage
\* being set without the earlier one.
C17_StagesGuarded ==
    [][/\ (Called("build_vector_store") /\ analysis = None) => last'[2] = "ValueError"
       /\ (Called("build_rag_chain") /\ retriever = None) => last'[2] = "ValueError"
       /\ (Called("chat") /\ rag_chain = None) => last'[2] = "ValueError"
       /\ (last' # last /\ last'[2] = "ValueError") =>
              UNCHANGED <<analysis, retriever, rag_chain>>
       /\ (Called("chat") /\ last'[2] = "answered") =>
              rag_chain # None /\ retriever # None /\ analysis # None
       /\ rag_chain' # None => retriever' # None
       /\ retriever' # None => qdrant' # None /\ analysis' # None]_vars

\* a chat was answered
C17_Witness == last = <<"chat", "answered">>

====
